---- MODULE Spec2Model ----
(***************************************************************************)
(* ClarityAI MVP backend: the /analyze endpoint with its                   *)
(* SpeechAnalysisService (provider call, JSON parsing, fallback) and the   *)
(* VoiceService with its remembered voice id (app/main.py,                 *)
(* app/services.py, app/config.py).                                        *)
(***************************************************************************)
EXTENDS Integers, Sequences, FiniteSets, Bags

(***************************************************************************)
(* Bounds of the model.                                                    *)
(***************************************************************************)
\* requests that may be suspended (at an await) at the same time
MaxInflight == 2

(***************************************************************************)
(* Python values.  Optional[str] is None or Some(s); truthiness is         *)
(* Python's: None and the empty string are falsy.                          *)
(***************************************************************************)
None == [none |-> TRUE]
Some(s) == [some |-> s]
IsNone(x) == "none" \in DOMAIN x
Truthy(x) == "some" \in DOMAIN x /\ x.some # ""

(***************************************************************************)
(* Request text: a sequence of characters; str.strip() removes leading and *)
(* trailing whitespace.  The texts sent: empty, blank, and not blank.      *)
(***************************************************************************)
Texts == {<<>>, <<" ">>, <<" ", " ">>, <<"a">>}

RECURSIVE lstrip(_)
lstrip(s) == IF s # <<>> /\ Head(s) = " " THEN lstrip(Tail(s)) ELSE s

RECURSIVE rstrip(_)
rstrip(s) ==
  IF s # <<>> /\ s[Len(s)] = " " THEN rstrip(SubSeq(s, 1, Len(s) - 1)) ELSE s

strip(s) == rstrip(lstrip(s))

(***************************************************************************)
(* JSON.  A JSON text is a sequence of lexemes: punctuation P(c), a string *)
(* literal Q(t) holding the text t, a number N(n), a bare word W(s).       *)
(* A parsed value is a Python value: str, int, bool, None, float nan or    *)
(* inf or -inf (json.loads reads NaN, Infinity, -Infinity),                *)
(* list, or dict (a sequence of key/value pairs in insertion order, keys   *)
(* unique).  The text of a str is itself a sequence of lexemes, so that a  *)
(* completion's content can be handed to json.loads.                       *)
(***************************************************************************)
P(c) == [p |-> c]
Q(t) == [q |-> t]
N(n) == [n |-> n]
W(s) == [w |-> s]

Str(t) == [str |-> t]
Num(n) == [num |-> n]
Bool(b) == [bool |-> b]
Null == [null |-> TRUE]
NaN == [float |-> "nan"]
Inf == [float |-> "inf"]
NegInf == [float |-> "-inf"]
Arr(s) == [arr |-> s]
Obj(s) == [obj |-> s]
KV(k, v) == [k |-> k, val |-> v]

\* a text of one word
T(s) == <<W(s)>>

IsStr(v) == "str" \in DOMAIN v
IsArr(v) == "arr" \in DOMAIN v
IsObj(v) == "obj" \in DOMAIN v
IsFloat(v) == "float" \in DOMAIN v

HasKey(pairs, k) == \E i \in 1..Len(pairs) : pairs[i].k = k
Lookup(pairs, k) == pairs[CHOOSE i \in 1..Len(pairs) : pairs[i].k = k].val

\* d[k] = v on a dict: a repeated key keeps its place and takes the last value
DictSet(pairs, k, v) ==
  IF HasKey(pairs, k)
  THEN LET i == CHOOSE j \in 1..Len(pairs) : pairs[j].k = k IN
       SubSeq(pairs, 1, i - 1) \o <<KV(k, v)>> \o SubSeq(pairs, i + 1, Len(pairs))
  ELSE Append(pairs, KV(k, v))

ParseFail == [ok |-> FALSE]
ParseOk(v, next) == [ok |-> TRUE, val |-> v, next |-> next]

IsTok(toks, i, tk) == i <= Len(toks) /\ toks[i] = tk

RECURSIVE ParseValue(_, _)
RECURSIVE ParseElems(_, _, _)
RECURSIVE ParseMembers(_, _, _)

\* the value starting at lexeme i
ParseValue(toks, i) ==
  IF i > Len(toks) THEN ParseFail
  ELSE LET tk == toks[i] IN
    IF "q" \in DOMAIN tk THEN ParseOk(Str(tk.q), i + 1)
    ELSE IF "n" \in DOMAIN tk THEN ParseOk(Num(tk.n), i + 1)
    ELSE IF "w" \in DOMAIN tk THEN
      CASE tk.w = "true" -> ParseOk(Bool(TRUE), i + 1)
        [] tk.w = "false" -> ParseOk(Bool(FALSE), i + 1)
        [] tk.w = "null" -> ParseOk(Null, i + 1)
        [] tk.w = "NaN" -> ParseOk(NaN, i + 1)
        [] tk.w = "Infinity" -> ParseOk(Inf, i + 1)
        [] tk.w = "-Infinity" -> ParseOk(NegInf, i + 1)
        [] OTHER -> ParseFail
    ELSE
      CASE tk.p = "[" ->
             IF IsTok(toks, i + 1, P("]")) THEN ParseOk(Arr(<<>>), i + 2)
             ELSE ParseElems(toks, i + 1, <<>>)
        [] tk.p = "{" ->
             IF IsTok(toks, i + 1, P("}")) THEN ParseOk(Obj(<<>>), i + 2)
             ELSE ParseMembers(toks, i + 1, <<>>)
        [] OTHER -> ParseFail

\* the elements of a list from lexeme i on, acc holding those already read
ParseElems(toks, i, acc) ==
  LET r == ParseValue(toks, i) IN
  IF ~r.ok THEN ParseFail
  ELSE IF IsTok(toks, r.next, P(",")) THEN
    ParseElems(toks, r.next + 1, Append(acc, r.val))
  ELSE IF IsTok(toks, r.next, P("]")) THEN
    ParseOk(Arr(Append(acc, r.val)), r.next + 1)
  ELSE ParseFail

\* the members of a dict from lexeme i on, acc holding those already read
ParseMembers(toks, i, acc) ==
  IF ~(i <= Len(toks) /\ "q" \in DOMAIN toks[i]) THEN ParseFail
  ELSE IF ~IsTok(toks, i + 1, P(":")) THEN ParseFail
  ELSE LET r == ParseValue(toks, i + 2) IN
    IF ~r.ok THEN ParseFail
    ELSE IF IsTok(toks, r.next, P(",")) THEN
      ParseMembers(toks, r.next + 1, DictSet(acc, toks[i].q, r.val))
    ELSE IF IsTok(toks, r.next, P("}")) THEN
      ParseOk(Obj(DictSet(acc, toks[i].q, r.val)), r.next + 1)
    ELSE ParseFail

\* json.loads(text): one value and nothing after it, else JSONDecodeError
json_loads(text) ==
  LET r == ParseValue(text, 1) IN
  IF r.ok /\ r.next = Len(text) + 1 THEN [ok |-> TRUE, val |-> r.val]
  ELSE [ok |-> FALSE]

(***************************************************************************)
(* Python subscripts on parsed values: d["k"] and s[0].                    *)
(***************************************************************************)
Returned(v) == [returned |-> v]
Raised(e) == [raised |-> e]
HasReturned(r) == "returned" \in DOMAIN r
HasRaised(r) == "raised" \in DOMAIN r

GetKey(v, k) ==
  IF IsObj(v) THEN
    IF HasKey(v.obj, k) THEN Returned(Lookup(v.obj, k)) ELSE Raised("KeyError")
  ELSE Raised("TypeError")

\* the first decimal digit of n >= 0
RECURSIVE LeadDigit(_)
LeadDigit(n) == IF n < 10 THEN n ELSE LeadDigit(n \div 10)

\* the first character of a lexeme's text, as a lexeme
FirstChar(lex) ==
  IF "w" \in DOMAIN lex THEN W(Head(lex.w))
  ELSE IF "q" \in DOMAIN lex THEN W("\"")
  ELSE IF "n" \in DOMAIN lex THEN
    IF lex.n < 0 THEN W("-") ELSE N(LeadDigit(lex.n))
  ELSE lex

\* v[0]; the first character of a str is again a str
GetFirst(v) ==
  IF IsArr(v) THEN
    IF v.arr # <<>> THEN Returned(v.arr[1]) ELSE Raised("IndexError")
  ELSE IF IsStr(v) THEN
    IF v.str # <<>> THEN Returned(Str(<<FirstChar(Head(v.str))>>))
    ELSE Raised("IndexError")
  ELSE IF IsObj(v) THEN Raised("KeyError")
  ELSE Raised("TypeError")

\* result["choices"][0]["message"]["content"]
completion_content(result) ==
  LET a == GetKey(result, T("choices")) IN
  IF HasRaised(a) THEN a
  ELSE LET b == GetFirst(a.returned) IN
    IF HasRaised(b) THEN b
    ELSE LET c == GetKey(b.returned, T("message")) IN
      IF HasRaised(c) THEN c
      ELSE GetKey(c.returned, T("content"))

(***************************************************************************)
(* SpeechAnalysisService                                                   *)
(***************************************************************************)
Speech(d, s) == Obj(<<KV(T("demographic"), Str(T(d))), KV(T("speech"), Str(T(s)))>>)

fallback_response ==
  Obj(<<
    KV(T("category"), Str(T("General"))),
    KV(T("demographics"),
       Arr(<<Str(T("Progressive")), Str(T("Conservative")), Str(T("Moderate"))>>)),
    KV(T("alternateSpeeches"),
       Arr(<<
         Speech("Progressive",
           "We need bold action and systemic change to address this issue effectively."),
         Speech("Conservative",
           "We should preserve our values while making careful, measured improvements."),
         Speech("Moderate",
           "A balanced approach considering all perspectives will yield the best results.")
       >>))
  >>)

\* variant: only an unset key counts as no credential
has_credential_NoneOnly(key) == ~IsNone(key)
\* `if not self.api_key`
has_credential(key) == Truthy(key)

\* variant: only 5xx counts as a failure
is_error_status_ServerOnly(code) == code >= 500
\* `if response.status_code != 200`
is_error_status(code) == code # 200

\* variant: content that does not parse is returned raw
parse_content_ReturnsRaw(content) ==
  LET p == json_loads(content) IN
  IF p.ok THEN Returned(p.val) ELSE Returned(Str(content))
\* variant: a parsed value without alternateSpeeches is replaced by the fallback
parse_content_Validated(content) ==
  LET p == json_loads(content) IN
  IF p.ok /\ IsObj(p.val) /\ HasKey(p.val.obj, T("alternateSpeeches"))
  THEN Returned(p.val) ELSE Returned(fallback_response)
\* the inner try: json.loads(content), JSONDecodeError gives the fallback
parse_content(content) ==
  LET p == json_loads(content) IN
  IF p.ok THEN Returned(p.val) ELSE Returned(fallback_response)

\* the body of the outer try, from the reply of client.post on
try_post(reply) ==
  IF reply.kind = "error" THEN Raised(reply.exc)
  ELSE IF is_error_status(reply.status_code) THEN Returned(fallback_response)
  ELSE LET result == json_loads(reply.body) IN
    IF ~result.ok THEN Raised("JSONDecodeError")
    ELSE LET content == completion_content(result.val) IN
      IF HasRaised(content) THEN content
      ELSE IF ~IsStr(content.returned) THEN Raised("TypeError")
      ELSE parse_content(content.returned.str)

\* variant: no outer `except Exception`
outer_except_NoExcept(r) == r
\* the outer `except Exception`, reached once the `async with` has closed the
\* client: whatever the try body raised becomes the fallback
outer_except(r) == IF HasRaised(r) THEN Returned(fallback_response) ELSE r

\* analyze_speech from the reply of client.post to its return value
after_post(reply) == outer_except(try_post(reply))

(***************************************************************************)
(* The provider's replies to client.post                                   *)
(***************************************************************************)
TransportErrors == {"ConnectError", "ReadTimeout"}
StatusCodes == {200, 201, 404, 500}

ErrorReply(e) == [kind |-> "error", exc |-> e]
Response(code, body) == [kind |-> "response", status_code |-> code, body |-> body]
NoReply == [kind |-> "none"]

\* the JSON envelope around the lexeme c: {"choices":[{"message":{"content":c}}]}
EnvelopeText(c) ==
  <<P("{"), Q(T("choices")), P(":"), P("["), P("{"), Q(T("message")), P(":"),
    P("{"), Q(T("content")), P(":"), c, P("}"), P("}"), P("]"), P("}")>>

SpeechText(d, s) ==
  <<P("{"), Q(T("demographic")), P(":"), Q(T(d)), P(","),
    Q(T("speech")), P(":"), Q(T(s)), P("}")>>

\* the completion of the specification's example
GoodContent ==
  <<P("{"), Q(T("category")), P(":"), Q(T("Politics")), P(","),
    Q(T("demographics")), P(":"),
      P("["), Q(T("A")), P(","), Q(T("B")), P(","), Q(T("C")), P("]"), P(","),
    Q(T("alternateSpeeches")), P(":"), P("[")>>
  \o SpeechText("A", "x") \o <<P(",")>> \o SpeechText("B", "y") \o <<P(",")>>
  \o SpeechText("C", "z") \o <<P("]"), P("}")>>

NotJsonContent == <<W("not"), W("json")>>

\* {"category":"Politics","demographics":["A"],"alternateSpeeches":[]}
ShortListsContent ==
  <<P("{"), Q(T("category")), P(":"), Q(T("Politics")), P(","),
    Q(T("demographics")), P(":"), P("["), Q(T("A")), P("]"), P(","),
    Q(T("alternateSpeeches")), P(":"), P("["), P("]"), P("}")>>

\* {"category":"Politics"}
MissingFieldsContent == <<P("{"), Q(T("category")), P(":"), Q(T("Politics")), P("}")>>

\* {"category":null,"demographics":[],"alternateSpeeches":[]}
NullCategoryContent ==
  <<P("{"), Q(T("category")), P(":"), W("null"), P(","),
    Q(T("demographics")), P(":"), P("["), P("]"), P(","),
    Q(T("alternateSpeeches")), P(":"), P("["), P("]"), P("}")>>

\* {"category":"X","category":"Politics","demographics":[],"alternateSpeeches":[],"extra":1}
DuplicateKeyContent ==
  <<P("{"), Q(T("category")), P(":"), Q(T("X")), P(","),
    Q(T("category")), P(":"), Q(T("Politics")), P(","),
    Q(T("demographics")), P(":"), P("["), P("]"), P(","),
    Q(T("alternateSpeeches")), P(":"), P("["), P("]"), P(","),
    Q(T("extra")), P(":"), N(1), P("}")>>

\* {"category":"X","demographics":[NaN],"alternateSpeeches":[]}
NaNListContent ==
  <<P("{"), Q(T("category")), P(":"), Q(T("X")), P(","),
    Q(T("demographics")), P(":"), P("["), W("NaN"), P("]"), P(","),
    Q(T("alternateSpeeches")), P(":"), P("["), P("]"), P("}")>>

SampleContents ==
  { GoodContent, NotJsonContent, ShortListsContent, MissingFieldsContent,
    NullCategoryContent, DuplicateKeyContent, NaNListContent,
    <<W("Infinity")>>, <<W("-Infinity")>>,
    <<P("["), N(1), P(","), P("]")>>,
    <<P("{"), P("}"), P("{"), P("}")>>,
    <<W("null")>>, <<W("NaN")>>, <<N(1)>>, <<GoodContent[1]>> \o Tail(Tail(GoodContent)) }

ContentLexemes == {P("["), P("]"), P("{"), P("}"), Q(T("a"))}

\* the samples, the empty content and every content of one lexeme
Contents == SampleContents \cup {<<>>} \cup {<<l>> : l \in ContentLexemes}

\* a body that is not JSON, and JSON bodies that are not the envelope
NotJsonBody == <<W("<html>")>>
MalformedBodies ==
  { <<P("["), P("]")>>,
    <<P("{"), P("}")>>,
    <<P("{"), Q(T("choices")), P(":"), P("["), P("]"), P("}")>>,
    <<P("{"), Q(T("choices")), P(":"), Q(T("none")), P("}")>>,
    <<P("{"), Q(T("choices")), P(":"), P("["), P("{"), P("}"), P("]"), P("}")>>,
    <<P("{"), Q(T("choices")), P(":"), P("["), P("{"), Q(T("message")), P(":"),
      P("{"), P("}"), P("}"), P("]"), P("}")>>,
    EnvelopeText(W("null")),
    EnvelopeText(N(1)) }

Bodies(code) ==
  IF code = 200
  THEN {NotJsonBody} \cup MalformedBodies \cup {EnvelopeText(Q(c)) : c \in Contents}
  ELSE {NotJsonBody, EnvelopeText(Q(GoodContent))}

Replies ==
  {ErrorReply(e) : e \in TransportErrors}
  \cup UNION {{Response(code, b) : b \in Bodies(code)} : code \in StatusCodes}

(***************************************************************************)
(* The /analyze endpoint                                                   *)
(***************************************************************************)
HTTPException(code, detail) == [status_code |-> code, detail |-> detail]

\* `except Exception as e: raise HTTPException(status_code=500, detail=str(e))`;
\* HTTPException is an Exception, so the handler's own HTTPException lands here
endpoint_except(e) == HTTPException(500, [str_of |-> e])

\* `if not speech_input.text.strip(): raise HTTPException(400, ...)` in the try
reject_blank(text) == endpoint_except(HTTPException(400, "Text cannot be empty"))

\* response_model=AnalysisResponse: category a str, demographics and
\* alternateSpeeches lists; other fields are dropped; a value that does not
\* validate is a server error raised after the handler has returned
IsAnalysisResponse(v) ==
  /\ IsObj(v)
  /\ HasKey(v.obj, T("category")) /\ IsStr(Lookup(v.obj, T("category")))
  /\ HasKey(v.obj, T("demographics")) /\ IsArr(Lookup(v.obj, T("demographics")))
  /\ HasKey(v.obj, T("alternateSpeeches"))
  /\ IsArr(Lookup(v.obj, T("alternateSpeeches")))

\* the value as written in the JSON body: nan, inf and -inf become null
RECURSIVE to_json(_)
RECURSIVE to_json_items(_)
RECURSIVE to_json_pairs(_)
to_json(v) ==
  IF IsFloat(v) THEN Null
  ELSE IF IsArr(v) THEN Arr(to_json_items(v.arr))
  ELSE IF IsObj(v) THEN Obj(to_json_pairs(v.obj))
  ELSE v
to_json_items(s) ==
  IF s = <<>> THEN <<>> ELSE <<to_json(Head(s))>> \o to_json_items(Tail(s))
to_json_pairs(s) ==
  IF s = <<>> THEN <<>>
  ELSE <<KV(Head(s).k, to_json(Head(s).val))>> \o to_json_pairs(Tail(s))

serialize_response(v) ==
  IF IsAnalysisResponse(v)
  THEN [status_code |-> 200,
        body |-> Obj(<<KV(T("category"), Lookup(v.obj, T("category"))),
                       KV(T("demographics"),
                          to_json(Lookup(v.obj, T("demographics")))),
                       KV(T("alternateSpeeches"),
                          to_json(Lookup(v.obj, T("alternateSpeeches"))))>>)]
  ELSE [status_code |-> 500, detail |-> "Internal Server Error"]

\* the endpoint's answer to what speech_analysis.analyze_speech did
analyze_response(ret) ==
  IF HasRaised(ret) THEN endpoint_except(ret.raised)
  ELSE serialize_response(ret.returned)

(***************************************************************************)
(* VoiceService                                                            *)
(***************************************************************************)
DefaultVoice == "21m00Tcm4TlvDq8ikWAM"
VoiceIds == {"", "v1", "v2"}
CloneOutcomes == {[kind |-> "error"]} \cup {[kind |-> "voice", voice_id |-> v] : v \in VoiceIds}
GenerateOutcomes == {[kind |-> "error"]} \cup {[kind |-> "audio", audio |-> a] : a \in {"", "mp3"}}

\* variant: the slot is written only while it is empty
clone_voice_FirstWins(key, slot, outcome) ==
  IF ~Truthy(key) THEN [slot |-> slot, ret |-> None]
  ELSE IF outcome.kind = "error" THEN [slot |-> slot, ret |-> None]
  ELSE [slot |-> IF IsNone(slot) THEN Some(outcome.voice_id) ELSE slot,
        ret |-> Some(outcome.voice_id)]
\* clone_voice: the slot after it and the value it returns
clone_voice(key, slot, outcome) ==
  IF ~Truthy(key) THEN [slot |-> slot, ret |-> None]
  ELSE IF outcome.kind = "error" THEN [slot |-> slot, ret |-> None]
  ELSE [slot |-> Some(outcome.voice_id), ret |-> Some(outcome.voice_id)]

\* `if use_user_voice and self.user_voice_id`
select_voice(use_user_voice, slot) ==
  IF use_user_voice /\ Truthy(slot) THEN slot.some ELSE DefaultVoice

\* generate_speech: the voice handed to generate (None when it is not called)
\* and the value returned
generate_speech(key, slot, use_user_voice, outcome) ==
  IF ~Truthy(key) THEN [voice |-> None, ret |-> None]
  ELSE IF outcome.kind = "error"
    THEN [voice |-> Some(select_voice(use_user_voice, slot)), ret |-> None]
    ELSE [voice |-> Some(select_voice(use_user_voice, slot)),
          ret |-> Some(outcome.audio)]

\* /clone-voice after clone_voice returned
clone_response(ret) ==
  IF ~Truthy(ret) THEN endpoint_except(HTTPException(400, "Could not clone voice"))
  ELSE [status_code |-> 200, voice_id |-> ret.some]

\* /generate-audio after generate_speech returned
generate_response(ret) ==
  IF ~Truthy(ret) THEN endpoint_except(HTTPException(400, "Could not generate audio"))
  ELSE [status_code |-> 200, audio |-> ret.some]

(***************************************************************************)
(* State                                                                   *)
(***************************************************************************)
VARIABLES
  api_key,             \* SpeechAnalysisService.api_key (OPENROUTER_API_KEY)
  base_url,            \* SpeechAnalysisService.base_url
  model,               \* SpeechAnalysisService.model
  elevenlabs_api_key,  \* ELEVENLABS_API_KEY
  user_voice_id,       \* VoiceService.user_voice_id
  inflight,            \* the requests suspended at an await, as a bag
  done,                \* the request that completed last, with what it did
  last_cloned          \* the last non-null value clone_voice returned

vars == <<api_key, base_url, model, elevenlabs_api_key, user_voice_id,
          inflight, done, last_cloned>>

shared == <<api_key, base_url, model, elevenlabs_api_key, user_voice_id>>

\* os.getenv: unset, set to the empty string, or set
EnvKeys == {None, Some(""), Some("key")}

Init ==
  /\ api_key \in EnvKeys
  /\ base_url = "https://openrouter.ai/api/v1"
  /\ model = "mistralai/mistral-7b-instruct"
  /\ elevenlabs_api_key \in EnvKeys
  /\ user_voice_id = None
  /\ inflight = EmptyBag
  /\ done = [op |-> "none"]
  /\ last_cloned = None

CanSuspend == BagCardinality(inflight) < MaxInflight
Suspend(q) == inflight' = inflight (+) SetToBag({q})
Resume(q) == inflight' = inflight (-) SetToBag({q})

\* variant: a second post is made
awaiting_post_Twice(text) == [pc |-> "awaiting_post", text |-> text, calls |-> 2]
\* the request suspended in `await client.post(...)`: one post is under way
awaiting_post(text) == [pc |-> "awaiting_post", text |-> text, calls |-> 1]

\* the request suspended in the exit of `async with httpx.AsyncClient()`, with
\* the reply it got and what the try body did with it
closing_client(text, calls, reply, pending) ==
  [pc |-> "closing_client", text |-> text, calls |-> calls, reply |-> reply,
   pending |-> pending]

\* the request suspended in `await audio_file.read()`
reading_upload == [pc |-> "reading_upload"]

NotCalled == [notcalled |-> TRUE]

AnalyzeDone(text, calls, reply, ret, response) ==
  [op |-> "analyze", text |-> text, calls |-> calls, reply |-> reply,
   ret |-> ret, response |-> response]

\* POST /analyze up to its first suspension: the text is rejected, or the
\* service returns the fallback at once for want of a credential, or the
\* request is posted to the provider
AnalyzeStart(text) ==
  /\ IF strip(text) = <<>>
     THEN /\ done' = AnalyzeDone(text, 0, NoReply, NotCalled, reject_blank(text))
          /\ UNCHANGED inflight
     ELSE IF ~has_credential(api_key)
     THEN /\ done' = AnalyzeDone(text, 0, NoReply, Returned(fallback_response),
                                 analyze_response(Returned(fallback_response)))
          /\ UNCHANGED inflight
     ELSE /\ CanSuspend
          /\ Suspend(awaiting_post(text))
          /\ UNCHANGED done
  /\ UNCHANGED <<shared, last_cloned>>

\* the post of request q ends with reply: the try body runs to its return or
\* to the exception it raises, and the request is suspended again while
\* `async with` closes the client
AnalyzeReply(q, reply) ==
  /\ q.pc = "awaiting_post"
  /\ inflight' = (inflight (-) SetToBag({q}))
                 (+) SetToBag({closing_client(q.text, q.calls, reply, try_post(reply))})
  /\ UNCHANGED <<shared, done, last_cloned>>

\* the client of request q is closed: analyze_speech returns (through the
\* outer except when the try body raised) and the endpoint answers
AnalyzeReturn(q) ==
  /\ q.pc = "closing_client"
  /\ LET ret == outer_except(q.pending) IN
     done' = AnalyzeDone(q.text, q.calls, q.reply, ret, analyze_response(ret))
  /\ Resume(q)
  /\ UNCHANGED <<shared, last_cloned>>

\* POST /clone-voice up to `await audio_file.read()`
CloneStart ==
  /\ CanSuspend
  /\ Suspend(reading_upload)
  /\ UNCHANGED <<shared, done, last_cloned>>

\* the upload is read; clone_voice runs to its end (clone is a blocking call)
\* and the endpoint answers
CloneFinish(q, outcome) ==
  /\ q.pc = "reading_upload"
  /\ LET c == clone_voice(elevenlabs_api_key, user_voice_id, outcome) IN
     /\ user_voice_id' = c.slot
     /\ last_cloned' = IF IsNone(c.ret) THEN last_cloned ELSE c.ret
     /\ done' = [op |-> "clone",
                 outcome |-> IF Truthy(elevenlabs_api_key) THEN outcome
                             ELSE [kind |-> "none"],
                 slot_before |-> user_voice_id, ret |-> c.ret,
                 response |-> clone_response(c.ret)]
  /\ Resume(q)
  /\ UNCHANGED <<api_key, base_url, model, elevenlabs_api_key>>

\* POST /generate-audio, which has no suspension of its own
GenerateAudio(text, use_user_voice, outcome) ==
  /\ IF strip(text) = <<>>
     THEN done' = [op |-> "generate", text |-> text,
                   use_user_voice |-> use_user_voice, voice |-> None,
                   response |-> reject_blank(text)]
     ELSE LET g == generate_speech(elevenlabs_api_key, user_voice_id,
                                   use_user_voice, outcome) IN
          done' = [op |-> "generate", text |-> text,
                   use_user_voice |-> use_user_voice, voice |-> g.voice,
                   response |-> generate_response(g.ret)]
  /\ UNCHANGED <<shared, inflight, last_cloned>>

NextAnalysis ==
  \/ \E text \in Texts : AnalyzeStart(text)
  \/ \E q \in BagToSet(inflight), reply \in Replies : AnalyzeReply(q, reply)
  \/ \E q \in BagToSet(inflight) : AnalyzeReturn(q)

NextVoice ==
  \/ CloneStart
  \/ \E q \in BagToSet(inflight), outcome \in CloneOutcomes : CloneFinish(q, outcome)
  \/ \E text \in Texts, u \in BOOLEAN, outcome \in GenerateOutcomes :
       GenerateAudio(text, u, outcome)

Next == NextAnalysis \/ NextVoice

\* the whole backend
Spec == Init /\ [][Next]_vars
\* the backend serving /analyze requests only (no ElevenLabs key set)
InitAnalysis == Init /\ IsNone(elevenlabs_api_key)
SpecAnalysis == InitAnalysis /\ [][NextAnalysis]_vars
\* the backend serving /clone-voice and /generate-audio requests only
\* (no OpenRouter key set)
InitVoice == Init /\ IsNone(api_key)
SpecVoice == InitVoice /\ [][NextVoice]_vars

(***************************************************************************)
(* Properties                                                              *)
(***************************************************************************)
Fallback == Returned(fallback_response)

\* the last completed request is an /analyze request that reached the service
Analyzed == done.op = "analyze" /\ done.ret # NotCalled
\* ... and the service posted to the provider and got `reply`
Replied == Analyzed /\ done.reply # NoReply

Is200(reply) == reply.kind = "response" /\ reply.status_code = 200

\* the reply is a 200 whose body is the envelope of a string content
HasContent(reply) ==
  /\ Is200(reply)
  /\ json_loads(reply.body).ok
  /\ HasReturned(completion_content(json_loads(reply.body).val))
  /\ IsStr(completion_content(json_loads(reply.body).val).returned)

ContentOf(reply) == completion_content(json_loads(reply.body).val).returned.str

HasListOfLen(v, k, n) ==
  IsObj(v) /\ HasKey(v.obj, T(k)) /\ IsArr(Lookup(v.obj, T(k)))
  /\ Len(Lookup(v.obj, T(k)).arr) = n

\* C1: whatever the provider does, analyze_speech returns a value whose
\* alternateSpeeches and demographics are lists of exactly 3 entries.
C1_AlwaysThreeEntries ==
  (Analyzed /\ done.text # <<>>) =>
    /\ HasReturned(done.ret)
    /\ HasListOfLen(done.ret.returned, "alternateSpeeches", 3)
    /\ HasListOfLen(done.ret.returned, "demographics", 3)

\* C2: with no credential (api_key None or empty) analyze_speech returns the
\* Fallback Result for any text, and no post is made: none is counted for the
\* call and none is ever under way.
C2_NoCredentialFallback ==
  ~Truthy(api_key) =>
    /\ inflight = EmptyBag
    /\ Analyzed => (done.ret = Fallback /\ done.calls = 0 /\ done.reply = NoReply)

C2_Witness ==
  Analyzed /\ api_key = Some("") /\ done.ret = Fallback /\ done.calls = 0

\* C3: with a credential, a reply with a non-success status, a transport
\* error or a timeout makes analyze_speech return the Fallback Result.
C3_ProviderFailureFallback ==
  (Replied /\ Truthy(api_key)
   /\ \/ done.reply.kind = "error"
      \/ done.reply.kind = "response" /\ done.reply.status_code \notin 200..299)
  => done.ret = Fallback

C3_Witness ==
  /\ Replied /\ Truthy(api_key) /\ done.reply.kind = "response"
  /\ done.reply.status_code = 500 /\ done.ret = Fallback

\* C4: with a credential, a 200 whose completion content is not JSON makes
\* analyze_speech return the Fallback Result, after the one post it made.
C4_MalformedContentFallback ==
  (Replied /\ Truthy(api_key) /\ HasContent(done.reply)
   /\ ~json_loads(ContentOf(done.reply)).ok)
  => (done.ret = Fallback /\ done.calls = 1)

C4_Witness ==
  /\ Replied /\ HasContent(done.reply)
  /\ ContentOf(done.reply) = NotJsonContent /\ done.ret = Fallback

\* C5: with a credential, a 200 whose completion content parses as JSON makes
\* analyze_speech return exactly the parsed value, whatever its shape.
C5_ParsedReturnedAsIs ==
  (Replied /\ Truthy(api_key) /\ HasContent(done.reply)
   /\ json_loads(ContentOf(done.reply)).ok)
  => done.ret = Returned(json_loads(ContentOf(done.reply)).val)

C5_Witness ==
  /\ Replied /\ HasContent(done.reply)
  /\ ContentOf(done.reply) = DuplicateKeyContent
  /\ HasReturned(done.ret) /\ done.ret # Fallback
  /\ HasKey(done.ret.returned.obj, T("extra"))

\* C6: analyze_speech always returns and never raises; whenever the call did
\* not end in a parsed completion (no credential, error, status, a body that
\* is no envelope of a string content, content that is no JSON) it returns
\* the Fallback Result.
C6_NeverRaises ==
  Analyzed =>
    /\ HasReturned(done.ret)
    /\ ~(done.reply # NoReply /\ HasContent(done.reply)
         /\ json_loads(ContentOf(done.reply)).ok)
       => done.ret = Fallback

C6_Witness ==
  /\ Replied /\ Is200(done.reply)
  /\ done.reply.body \in MalformedBodies \cup {NotJsonBody}
  /\ done.ret = Fallback

\* C7: POST /analyze with an empty or whitespace-only text answers with a
\* client error (4xx) and makes no provider call.
C7_BlankTextClientError ==
  (done.op = "analyze" /\ strip(done.text) = <<>>) =>
    /\ done.response.status_code \in 400..499
    /\ done.calls = 0 /\ done.ret = NotCalled

\* C8: POST /analyze with a text that is not blank answers 200 with a body
\* carrying category, demographics and alternateSpeeches, never a 5xx.
C8_NonBlankAlways200 ==
  (done.op = "analyze" /\ strip(done.text) # <<>>) =>
    /\ done.response.status_code = 200
    /\ IsAnalysisResponse(done.response.body)

\* what C9 says of each state: a suspended call, awaiting its reply or
\* closing its client, has made its one post; a completed call made one post
\* if a credential is set and none otherwise;
\* a failed post led to the Fallback Result with no further post
C9_OnePost ==
  /\ \A q \in BagToSet(inflight) :
       q.pc \in {"awaiting_post", "closing_client"} =>
         (q.calls = 1 /\ Truthy(api_key))
  /\ Analyzed => done.calls = (IF Truthy(api_key) THEN 1 ELSE 0)
  /\ (Replied /\ ~Is200(done.reply)) => (done.ret = Fallback /\ done.calls = 1)

\* C9: an invocation of analyze_speech makes at most one post (one with a
\* credential, none without), goes to the Fallback Result after a failure
\* without a retry, and changes none of api_key, base_url, model, the
\* ElevenLabs key or the voice slot.
C9_SingleAttemptNoMutation == []C9_OnePost /\ [][UNCHANGED shared]_vars

C9_Witness ==
  /\ Replied /\ done.reply.kind = "error" /\ done.calls = 1
  /\ done.ret = Fallback
  /\ \E q \in BagToSet(inflight) : q.pc = "closing_client"

\* C10: the voice slot holds the id returned by the last successful clone,
\* whatever the order in which cloning requests complete; a clone that fails
\* (no credential, provider error) returns null and leaves the slot as it
\* was; generate_speech, when it generates (a credential is set), uses the
\* slot's id when use_user_voice is set and the slot is non-empty and the
\* default voice otherwise; with no credential it uses no voice.
C10_LastWriteWins ==
  /\ user_voice_id = last_cloned
  /\ (done.op = "clone" /\ done.outcome.kind \in {"none", "error"}) =>
       (IsNone(done.ret) /\ user_voice_id = done.slot_before)
  /\ (done.op = "clone" /\ done.outcome.kind = "voice") =>
       (done.ret = Some(done.outcome.voice_id) /\ user_voice_id = done.ret)
  /\ (done.op = "generate" /\ strip(done.text) # <<>>) =>
       IF Truthy(elevenlabs_api_key)
       THEN done.voice =
              Some(IF done.use_user_voice /\ user_voice_id \notin {None, Some("")}
                   THEN user_voice_id.some ELSE DefaultVoice)
       ELSE IsNone(done.voice)

C10_Witness ==
  /\ done.op = "clone" /\ done.slot_before = Some("v1")
  /\ done.ret = Some("v2") /\ user_voice_id = Some("v2")
  /\ inflight # EmptyBag

====
